---- MODULE Spec2Model ----
(***************************************************************************)
(* A model of roead's AAMP name hashing and parameter typing (src/aamp.rs) *)
(* and of the BYML <-> YAML text bridge (src/byml/text.rs).                *)
(*                                                                         *)
(* Strings are sequences of byte values.                                   *)
(***************************************************************************)
EXTENDS Integers, Sequences, FiniteSets, TLC

VARIABLES
    name,      \* hash_name: the string to hash
    hash_i,    \* hash_name: i, the index of the next byte
    hash_crc,  \* hash_name: crc, the running value
    hashed,    \* hash_name: Option<u32>, the value returned
    key,       \* hashing client: Option<Name>
    params,    \* parameter client: the parameters of a ParameterObject
    types,     \* parameter client: what the writer derived for each parameter
    byml,      \* text client: Option<Byml>, the document the caller holds
    text,      \* text client: Option<text>, the YAML text the caller holds
    src,       \* text client: Option<Byml>, the document `text` was emitted from
    last,      \* text client: the last operation called
    error      \* text client: Option<Error>, the error of the last operation

hashVars == <<name, hash_i, hash_crc, hashed, key>>

paramVars == <<params, types>>

textVars == <<byml, text, src, last, error>>

vars ==
    <<name, hash_i, hash_crc, hashed, key, params, types, byml, text, src, last,
      error>>

(***************************************************************************)
(* Bounds of the model.                                                    *)
(***************************************************************************)
MaxNameLen == 3

MaxParams == 2

\* Option<T>: None is the empty sequence, Some(x) the one-element sequence.
None == <<>>

Some(x) == <<x>>

RECURSIVE Pow2(_)
Pow2(n) == IF n = 0 THEN 1 ELSE 2 * Pow2(n - 1)

(***************************************************************************)
(* 32-bit words: a u32 is the pair <<high 16 bits, low 16 bits>>.          *)
(***************************************************************************)
\* The u32 written as eight hexadecimal digits, most significant first.
HexWord(d) ==
    <<d[1] * 4096 + d[2] * 256 + d[3] * 16 + d[4],
      d[5] * 4096 + d[6] * 256 + d[7] * 16 + d[8]>>

\* `byte as u32`
ByteWord(b) == <<0, b>>

\* bitwise exclusive or of two n-bit naturals
RECURSIVE XorBits(_, _, _)
XorBits(a, b, n) ==
    IF n = 1
    THEN (a + b) % 2
    ELSE LET h == n \div 2
             p == Pow2(h)
         IN  XorBits(a % p, b % p, h) + p * XorBits(a \div p, b \div p, n - h)

Xor(a, b) == <<XorBits(a[1], b[1], 16), XorBits(a[2], b[2], 16)>>

\* `crc >> 1`
Shr1(a) == <<a[1] \div 2, (a[2] \div 2) + 32768 * (a[1] % 2)>>

\* `crc << 1` on 32 bits
Shl1(a) == <<((2 * a[1]) % 65536) + (a[2] \div 32768), (2 * a[2]) % 65536>>

\* `!crc`
Not32(a) == <<65535 - a[1], 65535 - a[2]>>

\* `crc & 1 == 1`
LowBit(a) == a[2] % 2 = 1

HighBit(a) == a[1] \div 32768 = 1

\* a value of type u32
IsWord(a) == a[1] \in 0 .. 65535 /\ a[2] \in 0 .. 65535

(***************************************************************************)
(* aamp.rs: hash_name                                                      *)
(***************************************************************************)
CRC_INIT == HexWord(<<15, 15, 15, 15, 15, 15, 15, 15>>)

CRC_POLY == HexWord(<<14, 13, 11, 8, 8, 3, 2, 0>>)

\* the inner loop `while j < 8`
RECURSIVE HashBits(_, _)
HashBits(crc0, j) ==
    IF j < 8
    THEN IF LowBit(crc0)
         THEN HashBits(Xor(Shr1(crc0), CRC_POLY), j + 1)
         ELSE HashBits(Shr1(crc0), j + 1)
    ELSE crc0

\* one turn of the outer loop: `crc ^= byte as u32` and the inner loop
hash_step_without_xor(crc0, b) == HashBits(crc0, 0)

hash_step(crc0, b) == HashBits(Xor(crc0, ByteWord(b)), 0)

\* the value returned, `!crc`
hash_finish_plain(crc0) == crc0

hash_finish(crc0) == Not32(crc0)

\* the outer loop `while i < name.len()`; bytes are indexed from 0 in the code.
\* crc is a u32 before every turn: testing it computes the value of one turn
\* before the next turn starts.
RECURSIVE HashBytes(_, _, _)
HashBytes(crc0, s, n) ==
    IF n < Len(s)
    THEN LET crc1 == hash_step(crc0, s[n + 1])
         IN  IF IsWord(crc1) THEN HashBytes(crc1, s, n + 1) ELSE crc1
    ELSE crc0

hash_name(s) == hash_finish(HashBytes(CRC_INIT, s, 0))

\* struct Name(u32)
Name(u) == [hash |-> u]

Name_from_str(s) == Name(hash_name(s))

Name_from(s) == Name(hash_name(s))

Name_hash(n) == n.hash

\* "param_root"
ParamRootStr == <<112, 97, 114, 97, 109, 95, 114, 111, 111, 116>>

ROOT_KEY == Name_from_str(ParamRootStr)

(***************************************************************************)
(* aamp.rs: Type, Parameter                                                *)
(***************************************************************************)
\* enum Type, in declaration order; the first discriminant is 0 and each
\* following one is its predecessor's plus one.
TypeDecl ==
    <<"Bool", "F32", "Int", "Vec2", "Vec3", "Vec4", "Color", "String32",
      "String64", "Curve1", "Curve2", "Curve3", "Curve4", "BufferInt",
      "BufferF32", "String256", "Quat", "U32", "BufferU32", "BufferBinary",
      "StringRef">>

Type == {TypeDecl[i] : i \in 1 .. Len(TypeDecl)}

\* `type_ as u8` (#[repr(u8)], Bool = 0)
TypeByte(t) == (CHOOSE i \in 1 .. Len(TypeDecl) : TypeDecl[i] = t) - 1

\* enum Parameter: the variants
ParameterVariants ==
    {"Bool", "F32", "Int", "Vec2", "Vec3", "Vec4", "Color", "String32",
     "String64", "Curve1", "Curve2", "Curve3", "Curve4", "BufferInt",
     "BufferF32", "String256", "Quat", "U32", "BufferU32", "BufferBinary",
     "StringRef"}

Parameter(variant) == [variant |-> variant]

get_type_u32_as_int(p) ==
    CASE p.variant = "Bool" -> "Bool"
      [] p.variant = "F32" -> "F32"
      [] p.variant = "Int" -> "Int"
      [] p.variant = "Vec2" -> "Vec2"
      [] p.variant = "Vec3" -> "Vec3"
      [] p.variant = "Vec4" -> "Vec4"
      [] p.variant = "Color" -> "Color"
      [] p.variant = "String32" -> "String32"
      [] p.variant = "String64" -> "String64"
      [] p.variant = "Curve1" -> "Curve1"
      [] p.variant = "Curve2" -> "Curve2"
      [] p.variant = "Curve3" -> "Curve3"
      [] p.variant = "Curve4" -> "Curve4"
      [] p.variant = "BufferInt" -> "BufferInt"
      [] p.variant = "BufferF32" -> "BufferF32"
      [] p.variant = "String256" -> "String256"
      [] p.variant = "Quat" -> "Quat"
      [] p.variant = "U32" -> "Int"
      [] p.variant = "BufferU32" -> "BufferInt"
      [] p.variant = "BufferBinary" -> "BufferBinary"
      [] p.variant = "StringRef" -> "StringRef"

get_type(p) ==
    CASE p.variant = "Bool" -> "Bool"
      [] p.variant = "F32" -> "F32"
      [] p.variant = "Int" -> "Int"
      [] p.variant = "Vec2" -> "Vec2"
      [] p.variant = "Vec3" -> "Vec3"
      [] p.variant = "Vec4" -> "Vec4"
      [] p.variant = "Color" -> "Color"
      [] p.variant = "String32" -> "String32"
      [] p.variant = "String64" -> "String64"
      [] p.variant = "Curve1" -> "Curve1"
      [] p.variant = "Curve2" -> "Curve2"
      [] p.variant = "Curve3" -> "Curve3"
      [] p.variant = "Curve4" -> "Curve4"
      [] p.variant = "BufferInt" -> "BufferInt"
      [] p.variant = "BufferF32" -> "BufferF32"
      [] p.variant = "String256" -> "String256"
      [] p.variant = "Quat" -> "Quat"
      [] p.variant = "U32" -> "U32"
      [] p.variant = "BufferU32" -> "BufferU32"
      [] p.variant = "BufferBinary" -> "BufferBinary"
      [] p.variant = "StringRef" -> "StringRef"

is_buffer_type(p) ==
    p.variant \in {"BufferInt", "BufferF32", "BufferU32", "BufferBinary"}

(***************************************************************************)
(* Values of the BYML text bridge.                                         *)
(*                                                                         *)
(* A fixed-width integer is its two's-complement bit pattern as 16-bit     *)
(* limbs, least significant first: two limbs for i32/u32, four for         *)
(* i64/u64.  A float is <<sign, n>> and stands for (-1)^sign * n / 2^k,    *)
(* where k is the number of fraction bits of its width.                    *)
(***************************************************************************)
\* the radix of a limb, 2^16
LimbBase == Pow2(16)

F32FracBits == 2

F64FracBits == 3

Zero64 == <<0, 0, 0, 0>>

IsZero(w) == \A i \in 1 .. Len(w) : w[i] = 0

\* the sign bit of a two's-complement pattern
IsNegative(w) == w[Len(w)] >= 32768

\* w * m + a on Len(w) limbs: <<low limbs, carry out>>
RECURSIVE MulAdd(_, _, _, _)
MulAdd(w, m, a, i) ==
    IF i > Len(w)
    THEN <<<<>>, a>>
    ELSE LET cur == w[i] * m + a
             rest == MulAdd(w, m, cur \div LimbBase, i + 1)
         IN  <<<<cur % LimbBase>> \o rest[1], rest[2]>>

\* limbs n..Len(w) of w divided by d: <<quotient limbs, remainder>>
RECURSIVE DivLimbs(_, _, _)
DivLimbs(w, d, n) ==
    IF n > Len(w)
    THEN <<<<>>, 0>>
    ELSE LET hi == DivLimbs(w, d, n + 1)
             cur == hi[2] * LimbBase + w[n]
         IN  <<<<cur \div d>> \o hi[1], cur % d>>

\* two's-complement negation on Len(w) limbs
Negate(w) == MulAdd([i \in 1 .. Len(w) |-> 65535 - w[i]], 1, 1, 1)[1]

\* `i as u32`, `i as i32`: the low 32 bits of an i64
Low32(w) == SubSeq(w, 1, 2)

\* sign extension of an i32 to 64 bits
SignExtend(w) ==
    IF IsNegative(w) THEN w \o <<65535, 65535>> ELSE w \o <<0, 0>>

\* the digits of an unsigned value in the given radix, most significant first
RECURSIVE Digits(_, _)
Digits(w, radix) ==
    IF IsZero(w)
    THEN <<>>
    ELSE LET qr == DivLimbs(w, radix, 1)
         IN  Append(Digits(qr[1], radix), qr[2])

DigitsOrZero(w, radix) == IF IsZero(w) THEN <<0>> ELSE Digits(w, radix)

\* '0'..'9', 'a'..'f'
DigitChar(d) == IF d < 10 THEN 48 + d ELSE 87 + d

DigitChars(ds) == [i \in 1 .. Len(ds) |-> DigitChar(ds[i])]

\* lexical::to_string of an i32 or i64: decimal, '-' for negative values
IntToString(w) ==
    IF IsNegative(w)
    THEN <<45>> \o DigitChars(DigitsOrZero(Negate(w), 10))
    ELSE DigitChars(DigitsOrZero(w, 10))

\* format_hex!: "0x" and the lowercase hexadecimal digits
format_hex(w) == <<48, 120>> \o DigitChars(DigitsOrZero(w, 16))

\* the decimal digits of the fraction frac / 2^k
RECURSIVE FracDigits(_, _)
FracDigits(frac, k) ==
    IF frac = 0
    THEN <<>>
    ELSE <<(frac * 10) \div Pow2(k)>> \o FracDigits((frac * 10) % Pow2(k), k)

\* lexical::to_string of a float with k fraction bits: the shortest decimal
\* that reads back as the same value, always with a fraction part
FloatToString(f, k) ==
    LET int == f[2] \div Pow2(k)
        frac == f[2] % Pow2(k)
        intDigits == DigitsOrZero(<<int % LimbBase, int \div LimbBase>>, 10)
        fracDigits == IF frac = 0 THEN <<0>> ELSE FracDigits(frac, k)
    IN  (IF f[1] = 1 THEN <<45>> ELSE <<>>)
            \o DigitChars(intDigits) \o <<46>> \o DigitChars(fracDigits)

\* round-to-nearest, ties to even, of num / den
RoundDiv(num, den) ==
    LET q == num \div den
        r == num % den
    IN  IF 2 * r > den \/ (2 * r = den /\ q % 2 = 1) THEN q + 1 ELSE q

\* `f as f32`: an f64 rounded to the precision of an f32
F64ToF32(f) == <<f[1], RoundDiv(f[2], Pow2(F64FracBits - F32FracBits))>>

(***************************************************************************)
(* base64::encode and base64::decode (standard alphabet, padded).          *)
(***************************************************************************)
B64Char(v) ==
    IF v < 26 THEN 65 + v
    ELSE IF v < 52 THEN 71 + v
    ELSE IF v < 62 THEN v - 4
    ELSE IF v = 62 THEN 43 ELSE 47

\* the sextet of a character, or -1
B64Val(c) ==
    IF c >= 65 /\ c <= 90 THEN c - 65
    ELSE IF c >= 97 /\ c <= 122 THEN c - 71
    ELSE IF c >= 48 /\ c <= 57 THEN c + 4
    ELSE IF c = 43 THEN 62
    ELSE IF c = 47 THEN 63 ELSE -1

RECURSIVE base64_encode_from(_, _)
base64_encode_from(data, i) ==
    LET n == Len(data) - i + 1
        b1 == data[i]
        b2 == IF n >= 2 THEN data[i + 1] ELSE 0
        b3 == IF n >= 3 THEN data[i + 2] ELSE 0
        c1 == B64Char(b1 \div 4)
        c2 == B64Char((b1 % 4) * 16 + (b2 \div 16))
        c3 == B64Char((b2 % 16) * 4 + (b3 \div 64))
        c4 == B64Char(b3 % 64)
    IN  IF n <= 0 THEN <<>>
        ELSE IF n = 1 THEN <<c1, c2, 61, 61>>
        ELSE IF n = 2 THEN <<c1, c2, c3, 61>>
        ELSE <<c1, c2, c3, c4>> \o base64_encode_from(data, i + 3)

base64_encode(data) == base64_encode_from(data, 1)

\* the bytes of the groups of four characters from position i on, or
\* <<-1>> \o ... when a group is malformed
RECURSIVE base64_decode_from(_, _)
base64_decode_from(s, i) ==
    IF i > Len(s)
    THEN <<>>
    ELSE LET isLast == i + 3 = Len(s)
             v1 == B64Val(s[i])
             v2 == B64Val(s[i + 1])
             pad3 == s[i + 2] = 61
             pad4 == s[i + 3] = 61
             v3 == IF pad3 THEN 0 ELSE B64Val(s[i + 2])
             v4 == IF pad4 THEN 0 ELSE B64Val(s[i + 3])
             b1 == v1 * 4 + (v2 \div 16)
             b2 == (v2 % 16) * 16 + (v3 \div 4)
             b3 == (v3 % 4) * 64 + v4
         IN  IF \/ v1 < 0 \/ v2 < 0 \/ v3 < 0 \/ v4 < 0
                \/ (pad3 /\ ~pad4)
                \/ ((pad3 \/ pad4) /\ ~isLast)
             THEN <<-1>>
             ELSE IF pad3 THEN <<b1>>
             ELSE IF pad4 THEN <<b1, b2>>
             ELSE <<b1, b2, b3>> \o base64_decode_from(s, i + 4)

\* Result<Vec<u8>>: [ok, val]
base64_decode(s) ==
    IF Len(s) % 4 # 0
    THEN [ok |-> FALSE, val |-> <<>>]
    ELSE LET bytes == base64_decode_from(s, 1)
         IN  IF \E i \in 1 .. Len(bytes) : bytes[i] < 0
             THEN [ok |-> FALSE, val |-> <<>>]
             ELSE [ok |-> TRUE, val |-> bytes]

(***************************************************************************)
(* The shared scalar lexer and tag recognition of the YAML layer.          *)
(***************************************************************************)
\* Scalar: [kind, val] with kind one of Null, Bool, Int (an i64), Float (an
\* f64), String.  A failed conversion has ok = FALSE.
Scalar(kind, val) == [ok |-> TRUE, kind |-> kind, val |-> val]

ScalarError == [ok |-> FALSE, kind |-> "Null", val |-> <<>>]

IsDigit(c) == c >= 48 /\ c <= 57

\* the value of a hexadecimal digit, or -1
HexVal(c) ==
    IF IsDigit(c) THEN c - 48
    ELSE IF c >= 97 /\ c <= 102 THEN c - 87
    ELSE IF c >= 65 /\ c <= 70 THEN c - 55 ELSE -1

\* the digits s[i..] read in the given radix into 64 bits
RECURSIVE Accumulate(_, _, _, _)
Accumulate(s, i, radix, acc) ==
    IF i > Len(s)
    THEN [ok |-> TRUE, val |-> acc]
    ELSE LET r == MulAdd(acc, radix, HexVal(s[i]), 1)
         IN  IF r[2] # 0
             THEN [ok |-> FALSE, val |-> Zero64]
             ELSE Accumulate(s, i + 1, radix, r[1])

IsHexLexeme(s) ==
    /\ Len(s) >= 3
    /\ s[1] = 48
    /\ s[2] \in {120, 88}
    /\ \A i \in 3 .. Len(s) : HexVal(s[i]) >= 0

HasSign(s) == Len(s) >= 1 /\ s[1] \in {43, 45}

IsDecimalLexeme(s) ==
    LET first == IF HasSign(s) THEN 2 ELSE 1
    IN  /\ Len(s) >= first
        /\ \A i \in first .. Len(s) : IsDigit(s[i])

\* 0x.. / 0X.. hexadecimal (the 64-bit pattern) or signed decimal (an i64)
parse_int(s) ==
    IF IsHexLexeme(s)
    THEN Accumulate(s, 3, 16, Zero64)
    ELSE IF IsDecimalLexeme(s)
    THEN LET mag == Accumulate(s, IF HasSign(s) THEN 2 ELSE 1, 10, Zero64)
             minus == s[1] = 45
         IN  IF ~mag.ok THEN mag
             ELSE IF ~minus
             THEN [ok |-> ~IsNegative(mag.val), val |-> mag.val]
             ELSE [ok |-> ~IsNegative(mag.val)
                            \/ mag.val = <<0, 0, 0, 32768>>,
                   val |-> Negate(mag.val)]
    ELSE [ok |-> FALSE, val |-> Zero64]

PointAt(s) ==
    IF \E i \in 1 .. Len(s) : s[i] = 46
    THEN CHOOSE i \in 1 .. Len(s) : s[i] = 46 /\ \A j \in 1 .. i - 1 : s[j] # 46
    ELSE 0

\* sign, digits and an optional fraction of digits
IsFloatLexeme(s) ==
    LET first == IF HasSign(s) THEN 2 ELSE 1
        point == PointAt(s)
        intEnd == IF point = 0 THEN Len(s) ELSE point - 1
    IN  /\ intEnd >= first
        /\ \A i \in first .. intEnd : IsDigit(s[i])
        /\ point # 0 => /\ point < Len(s)
                        /\ \A i \in point + 1 .. Len(s) : IsDigit(s[i])

RECURSIVE DecValue(_, _, _)
DecValue(s, from, to) ==
    IF from > to THEN 0 ELSE DecValue(s, from, to - 1) * 10 + (s[to] - 48)

RECURSIVE Pow10(_)
Pow10(n) == IF n = 0 THEN 1 ELSE 10 * Pow10(n - 1)

\* the f64 nearest to the decimal
parse_float(s) ==
    IF ~IsFloatLexeme(s)
    THEN [ok |-> FALSE, val |-> <<0, 0>>]
    ELSE LET first == IF HasSign(s) THEN 2 ELSE 1
             point == PointAt(s)
             intEnd == IF point = 0 THEN Len(s) ELSE point - 1
             fracLen == IF point = 0 THEN 0 ELSE Len(s) - point
             num == DecValue(s, first, intEnd) * Pow10(fracLen)
                       + DecValue(s, point + 1, point + fracLen)
         IN  [ok |-> TRUE,
              val |-> <<IF s[1] = 45 THEN 1 ELSE 0,
                        RoundDiv(num * Pow2(F64FracBits), Pow10(fracLen))>>]

\* "true" "false" "True" "False"
BoolLexemes ==
    {<<116, 114, 117, 101>>, <<102, 97, 108, 115, 101>>,
     <<84, 114, 117, 101>>, <<70, 97, 108, 115, 101>>}

\* "null" "~" ""
NullLexemes == {<<110, 117, 108, 108>>, <<126>>, <<>>}

\* Option<TagBasedType>: "None" or the type
get_tag_based_type(tag) ==
    CASE tag = "tag:yaml.org,2002:str" -> "Str"
      [] tag = "tag:yaml.org,2002:float" -> "Float"
      [] tag = "tag:yaml.org,2002:int" -> "Int"
      [] tag = "tag:yaml.org,2002:bool" -> "Bool"
      [] tag = "tag:yaml.org,2002:null" -> "Null"
      [] OTHER -> "None"

parse_scalar(tag_type, value, is_quoted) ==
    CASE tag_type = "Str" -> Scalar("String", value)
      [] tag_type = "Bool" ->
            IF value \in BoolLexemes
            THEN Scalar("Bool", <<IF value[1] \in {116, 84} THEN 1 ELSE 0>>)
            ELSE ScalarError
      [] tag_type = "Null" -> Scalar("Null", <<>>)
      [] tag_type = "Float" ->
            IF parse_float(value).ok
            THEN Scalar("Float", parse_float(value).val)
            ELSE ScalarError
      [] tag_type = "Int" ->
            IF parse_int(value).ok
            THEN Scalar("Int", parse_int(value).val)
            ELSE ScalarError
      [] OTHER ->
            IF is_quoted THEN Scalar("String", value)
            ELSE IF value \in BoolLexemes
            THEN Scalar("Bool", <<IF value[1] \in {116, 84} THEN 1 ELSE 0>>)
            ELSE IF value \in NullLexemes THEN Scalar("Null", <<>>)
            ELSE IF parse_int(value).ok
            THEN Scalar("Int", parse_int(value).val)
            ELSE IF PointAt(value) # 0 /\ parse_float(value).ok
            THEN Scalar("Float", parse_float(value).val)
            ELSE Scalar("String", value)

\* ! & * - : ? [ ] { } # | > @ % " ' ` ,
LeadingIndicators ==
    {33, 38, 42, 45, 58, 63, 91, 93, 123, 125, 35, 124, 62, 64, 37, 34, 39,
     96, 44}

\* a string the plain style would not read back as the same string
string_needs_quotes(s) ==
    \/ \E i \in 1 .. Len(s) : s[i] < 32
    \/ Len(s) >= 1 /\ s[1] \in LeadingIndicators
    \/ parse_scalar("None", s, FALSE).kind # "String"

(***************************************************************************)
(* byml/text.rs: tags                                                      *)
(***************************************************************************)
is_binary_tag(tag) == tag = "tag:yaml.org,2002:binary" \/ tag = "!!binary"

recognize_tag(tag) ==
    CASE tag = "!f64" -> "Float"
      [] tag \in {"!u", "!l", "!ul"} -> "Int"
      [] tag \in {"tag:yaml.org,2002:binary", "!!binary"} -> "Str"
      [] OTHER -> "None"

(***************************************************************************)
(* The BYML document: enum Byml.  Every node is a record [kind, val, keys,  *)
(* items]; a Hash keeps its entries in the order of insertion, keys[i]     *)
(* being the key of items[i].                                              *)
(***************************************************************************)
Leaf(kind, val) == [kind |-> kind, val |-> val, keys |-> <<>>, items |-> <<>>]

Null == Leaf("Null", <<>>)

Bool(b) == Leaf("Bool", <<IF b THEN 1 ELSE 0>>)

I32(w) == Leaf("I32", w)

U32(w) == Leaf("U32", w)

I64(w) == Leaf("I64", w)

U64(w) == Leaf("U64", w)

Float(f) == Leaf("Float", f)

Double(f) == Leaf("Double", f)

String(s) == Leaf("String", s)

BinaryData(data) == Leaf("BinaryData", data)

Array(items) ==
    [kind |-> "Array", val |-> <<>>, keys |-> <<>>, items |-> items]

Hash(keys, items) ==
    [kind |-> "Hash", val |-> <<>>, keys |-> keys, items |-> items]

\* Hash::insert: a present key keeps its place and gets the new value
HashInsert(h, k, v) ==
    IF \E i \in 1 .. Len(h.keys) : h.keys[i] = k
    THEN LET i == CHOOSE i \in 1 .. Len(h.keys) : h.keys[i] = k
         IN  [h EXCEPT !.items[i] = v]
    ELSE Hash(Append(h.keys, k), Append(h.items, v))

\* String::cmp: bytewise lexicographic order
RECURSIVE StrLessFrom(_, _, _)
StrLessFrom(a, b, i) ==
    IF i > Len(a) THEN i <= Len(b)
    ELSE IF i > Len(b) THEN FALSE
    ELSE IF a[i] # b[i] THEN a[i] < b[i]
    ELSE StrLessFrom(a, b, i + 1)

StrLess(a, b) == StrLessFrom(a, b, 1)

(***************************************************************************)
(* The YAML tree of ryml and its text.  A node of the tree is a record     *)
(* [type, flow, hasKey, key, keyQuoted, val, tag, quoted, children].  The  *)
(* text of a tree is the sequence of its YAML events.                      *)
(***************************************************************************)
\* Tree::default / append_child: a node with no type, key or value yet
NewNode ==
    [type |-> "NoType", flow |-> FALSE, hasKey |-> FALSE, key |-> <<>>,
     keyQuoted |-> FALSE, val |-> <<>>, tag |-> "", quoted |-> FALSE,
     children |-> <<>>]

Event(ev, flow, txt, tag, quoted) ==
    [ev |-> ev, flow |-> flow, text |-> txt, tag |-> tag, quoted |-> quoted]

RECURSIVE RymlEmit(_)
RECURSIVE RymlEmitChildren(_, _)
\* Tree::emit
RymlEmit(node) ==
    IF node.type \in {"Map", "Seq"}
    THEN <<Event(node.type, node.flow, <<>>, "", FALSE)>>
            \o RymlEmitChildren(node, 1)
            \o <<Event("End", FALSE, <<>>, "", FALSE)>>
    ELSE <<Event("Val", FALSE, node.val, node.tag, node.quoted)>>

RymlEmitChildren(node, i) ==
    IF i > Len(node.children)
    THEN <<>>
    ELSE (IF node.type = "Map"
          THEN <<Event("Key", FALSE, node.children[i].key, "",
                       node.children[i].keyQuoted)>>
          ELSE <<>>)
            \o RymlEmit(node.children[i])
            \o RymlEmitChildren(node, i + 1)

RECURSIVE RymlParseAt(_, _)
RECURSIVE RymlParseChildren(_, _, _, _)
\* the node that starts at event i, and the position after it
RymlParseAt(events, i) ==
    IF events[i].ev \in {"Map", "Seq"}
    THEN LET r == RymlParseChildren(events, i + 1, events[i].ev = "Map", <<>>)
         IN  [node |-> [NewNode EXCEPT !.type = events[i].ev,
                                       !.flow = events[i].flow,
                                       !.children = r.children],
              next |-> r.next]
    ELSE [node |-> [NewNode EXCEPT !.type = "Val",
                                   !.val = events[i].text,
                                   !.tag = events[i].tag,
                                   !.quoted = events[i].quoted],
          next |-> i + 1]

RymlParseChildren(events, i, isMap, acc) ==
    IF events[i].ev = "End"
    THEN [children |-> acc, next |-> i + 1]
    ELSE IF isMap
    THEN LET r == RymlParseAt(events, i + 1)
         IN  RymlParseChildren(events, r.next, isMap,
                 Append(acc, [r.node EXCEPT !.hasKey = TRUE,
                                            !.key = events[i].text,
                                            !.keyQuoted = events[i].quoted]))
    ELSE LET r == RymlParseAt(events, i)
         IN  RymlParseChildren(events, r.next, isMap, Append(acc, r.node))

\* Tree::parse
RymlParse(events) == RymlParseAt(events, 1).node

(***************************************************************************)
(* byml/text.rs: Parser                                                    *)
(***************************************************************************)
\* Result<Byml>: [ok, val, err]
Ok(b) == [ok |-> TRUE, val |-> b, err |-> ""]

Err(e) == [ok |-> FALSE, val |-> Null, err |-> e]

\* parse_node, the arms of `match scalar`
scalar_to_byml_long_as_i32(tag, scalar) ==
    CASE scalar.kind = "Bool" -> Ok(Leaf("Bool", scalar.val))
      [] scalar.kind = "Float" ->
            IF tag = "!f64"
            THEN Ok(Double(scalar.val))
            ELSE Ok(Float(F64ToF32(scalar.val)))
      [] scalar.kind = "Int" ->
            CASE tag = "!u" -> Ok(U32(Low32(scalar.val)))
              [] tag = "!ul" -> Ok(U64(scalar.val))
              [] OTHER -> Ok(I32(Low32(scalar.val)))
      [] scalar.kind = "Null" -> Ok(Null)
      [] scalar.kind = "String" ->
            IF is_binary_tag(tag)
            THEN IF base64_decode(scalar.val).ok
                 THEN Ok(BinaryData(base64_decode(scalar.val).val))
                 ELSE Err("Base64")
            ELSE Ok(String(scalar.val))

scalar_to_byml_u_ul_swapped(tag, scalar) ==
    CASE scalar.kind = "Bool" -> Ok(Leaf("Bool", scalar.val))
      [] scalar.kind = "Float" ->
            IF tag = "!f64"
            THEN Ok(Double(scalar.val))
            ELSE Ok(Float(F64ToF32(scalar.val)))
      [] scalar.kind = "Int" ->
            CASE tag = "!ul" -> Ok(U32(Low32(scalar.val)))
              [] tag = "!u" -> Ok(U64(scalar.val))
              [] tag = "!l" -> Ok(I64(scalar.val))
              [] OTHER -> Ok(I32(Low32(scalar.val)))
      [] scalar.kind = "Null" -> Ok(Null)
      [] scalar.kind = "String" ->
            IF is_binary_tag(tag)
            THEN IF base64_decode(scalar.val).ok
                 THEN Ok(BinaryData(base64_decode(scalar.val).val))
                 ELSE Err("Base64")
            ELSE Ok(String(scalar.val))

scalar_to_byml(tag, scalar) ==
    CASE scalar.kind = "Bool" -> Ok(Leaf("Bool", scalar.val))
      [] scalar.kind = "Float" ->
            IF tag = "!f64"
            THEN Ok(Double(scalar.val))
            ELSE Ok(Float(F64ToF32(scalar.val)))
      [] scalar.kind = "Int" ->
            CASE tag = "!u" -> Ok(U32(Low32(scalar.val)))
              [] tag = "!ul" -> Ok(U64(scalar.val))
              [] tag = "!l" -> Ok(I64(scalar.val))
              [] OTHER -> Ok(I32(Low32(scalar.val)))
      [] scalar.kind = "Null" -> Ok(Null)
      [] scalar.kind = "String" ->
            IF is_binary_tag(tag)
            THEN IF base64_decode(scalar.val).ok
                 THEN Ok(BinaryData(base64_decode(scalar.val).val))
                 ELSE Err("Base64")
            ELSE Ok(String(scalar.val))

\* parse_node, the scalar branch
parse_scalar_node(node) ==
    LET tag == node.tag
        tag_type == IF get_tag_based_type(tag) # "None"
                    THEN get_tag_based_type(tag)
                    ELSE recognize_tag(tag)
        scalar == parse_scalar(tag_type, node.val, node.quoted)
    IN  IF scalar.ok THEN scalar_to_byml(tag, scalar) ELSE Err("Scalar")

\* `.collect::<Result<_>>()`: the entries in order, or the first error
RECURSIVE CollectFrom(_, _, _, _)
CollectFrom(node, results, i, acc) ==
    IF i > Len(results) THEN Ok(acc)
    ELSE IF ~results[i].ok THEN results[i]
    ELSE CollectFrom(node, results, i + 1,
            IF acc.kind = "Hash"
            THEN HashInsert(acc, node.children[i].key, results[i].val)
            ELSE Array(Append(acc.items, results[i].val)))

RECURSIVE parse_node(_)
parse_node(node) ==
    IF node.type = "Map"
    THEN CollectFrom(node,
            [i \in 1 .. Len(node.children) |-> parse_node(node.children[i])],
            1, Hash(<<>>, <<>>))
    ELSE IF node.type = "Seq"
    THEN CollectFrom(node,
            [i \in 1 .. Len(node.children) |-> parse_node(node.children[i])],
            1, Array(<<>>))
    ELSE parse_scalar_node(node)

\* Parser::new(text)?.parse()
from_text(t) == parse_node(RymlParse(t))

(***************************************************************************)
(* byml/text.rs: Emitter                                                   *)
(***************************************************************************)
\* the size below which a container of scalars is written in flow style
InlineLimit == 10

is_simple(by) == by.kind \notin {"Array", "Hash"}

should_use_inline_up_to_limit(by) ==
    CASE by.kind \in {"Array", "Hash"} ->
            /\ Len(by.items) <= InlineLimit
            /\ \A i \in 1 .. Len(by.items) : is_simple(by.items[i])
      [] OTHER -> FALSE

should_use_inline(by) ==
    CASE by.kind \in {"Array", "Hash"} ->
            /\ Len(by.items) < InlineLimit
            /\ \A i \in 1 .. Len(by.items) : is_simple(by.items[i])
      [] OTHER -> FALSE

\* Vec::sort_by, a stable sort: x goes before the first entry it is less than
RECURSIVE InsertByKey(_, _, _)
InsertByKey(sorted, x, i) ==
    IF i > Len(sorted) THEN Append(sorted, x)
    ELSE IF StrLess(x[1], sorted[i][1])
    THEN SubSeq(sorted, 1, i - 1) \o <<x>> \o SubSeq(sorted, i, Len(sorted))
    ELSE InsertByKey(sorted, x, i + 1)

RECURSIVE SortByKey(_, _, _)
SortByKey(entries, i, acc) ==
    IF i > Len(entries)
    THEN acc
    ELSE SortByKey(entries, i + 1, InsertByKey(acc, entries[i], 1))

\* `hash.iter().collect::<Vec<_>>()`: the entries <<key, value>> as the map
\* iterates them
map_items_unsorted(hash) ==
    [i \in 1 .. Len(hash.keys) |-> <<hash.keys[i], hash.items[i]>>]

\* map_items after `map_items.sort_by(|a, b| a.0.cmp(b.0))`
map_items(hash) ==
    SortByKey([i \in 1 .. Len(hash.keys) |-> <<hash.keys[i], hash.items[i]>>],
              1, <<>>)

set_val(dest, s) == [dest EXCEPT !.type = "Val", !.val = s]

set_val_tag(dest, tag) == [dest EXCEPT !.tag = tag]

\* build_node, the arms of `match scalar`
build_scalar_untagged_u64(scalar, dest) ==
    CASE scalar.kind = "String" ->
            IF string_needs_quotes(scalar.val)
            THEN [set_val(dest, scalar.val) EXCEPT !.quoted = TRUE]
            ELSE set_val(dest, scalar.val)
      [] scalar.kind = "Bool" ->
            set_val(dest, IF scalar.val = <<1>>
                          THEN <<116, 114, 117, 101>>
                          ELSE <<102, 97, 108, 115, 101>>)
      [] scalar.kind = "Float" ->
            set_val(dest, FloatToString(scalar.val, F32FracBits))
      [] scalar.kind = "Double" ->
            set_val_tag(set_val(dest, FloatToString(scalar.val, F64FracBits)),
                        "!f64")
      [] scalar.kind = "I32" -> set_val(dest, IntToString(scalar.val))
      [] scalar.kind = "I64" ->
            set_val_tag(set_val(dest, IntToString(scalar.val)), "!l")
      [] scalar.kind = "U32" ->
            set_val_tag(set_val(dest, format_hex(scalar.val)), "!u")
      [] scalar.kind = "U64" -> set_val(dest, format_hex(scalar.val))
      [] scalar.kind = "Null" -> set_val(dest, <<110, 117, 108, 108>>)
      [] scalar.kind = "BinaryData" ->
            set_val_tag(set_val(dest, base64_encode(scalar.val)), "!!binary")

build_scalar(scalar, dest) ==
    CASE scalar.kind = "String" ->
            IF string_needs_quotes(scalar.val)
            THEN [set_val(dest, scalar.val) EXCEPT !.quoted = TRUE]
            ELSE set_val(dest, scalar.val)
      [] scalar.kind = "Bool" ->
            set_val(dest, IF scalar.val = <<1>>
                          THEN <<116, 114, 117, 101>>
                          ELSE <<102, 97, 108, 115, 101>>)
      [] scalar.kind = "Float" ->
            set_val(dest, FloatToString(scalar.val, F32FracBits))
      [] scalar.kind = "Double" ->
            set_val_tag(set_val(dest, FloatToString(scalar.val, F64FracBits)),
                        "!f64")
      [] scalar.kind = "I32" -> set_val(dest, IntToString(scalar.val))
      [] scalar.kind = "I64" ->
            set_val_tag(set_val(dest, IntToString(scalar.val)), "!l")
      [] scalar.kind = "U32" ->
            set_val_tag(set_val(dest, format_hex(scalar.val)), "!u")
      [] scalar.kind = "U64" ->
            set_val_tag(set_val(dest, format_hex(scalar.val)), "!ul")
      [] scalar.kind = "Null" -> set_val(dest, <<110, 117, 108, 108>>)
      [] scalar.kind = "BinaryData" ->
            set_val_tag(set_val(dest, base64_encode(scalar.val)), "!!binary")

\* `node.set_key(key)` and the single-quote flag of a key that needs quotes
set_key(node, k) ==
    [node EXCEPT !.hasKey = TRUE, !.key = k,
                 !.keyQuoted = string_needs_quotes(k)]

RECURSIVE build_node(_, _)
build_node(by, dest_node) ==
    CASE by.kind = "Array" ->
            [dest_node EXCEPT
                !.type = "Seq",
                !.flow = should_use_inline(by),
                !.children = [i \in 1 .. Len(by.items) |->
                                 build_node(by.items[i], NewNode)]]
      [] by.kind = "Hash" ->
            LET items == map_items(by)
            IN  [dest_node EXCEPT
                    !.type = "Map",
                    !.flow = should_use_inline(by),
                    !.children = [i \in 1 .. Len(items) |->
                                     build_node(items[i][2],
                                                set_key(NewNode, items[i][1]))]]
      [] OTHER -> build_scalar(by, dest_node)

\* Result<String>: [ok, text, err]
\* "null"
NullText == <<Event("Val", FALSE, <<110, 117, 108, 108>>, "", FALSE)>>

emit_any_root(by) ==
    CASE by.kind \in {"Hash", "Array"} ->
            [ok |-> TRUE, text |-> RymlEmit(build_node(by, NewNode)),
             err |-> ""]
      [] OTHER ->
            [ok |-> TRUE, text |-> RymlEmit(build_node(by, NewNode)),
             err |-> ""]

emit(by) ==
    CASE by.kind \in {"Hash", "Array"} ->
            [ok |-> TRUE, text |-> RymlEmit(build_node(by, NewNode)),
             err |-> ""]
      [] by.kind = "Null" -> [ok |-> TRUE, text |-> NullText, err |-> ""]
      [] OTHER -> [ok |-> FALSE, text |-> <<>>, err |-> "Any"]

\* Emitter::new(self).emit()
to_text(by) == emit(by)

(***************************************************************************)
(* Name hashing: hash_name runs over the bytes of a string, and            *)
(* Name::from_str wraps the value it returns.                              *)
(***************************************************************************)

\* "The Abolition of Man"
AbolitionStr ==
    <<84, 104, 101, 32, 65, 98, 111, 108, 105, 116, 105, 111, 110, 32, 111,
      102, 32, 77, 97, 110>>

NameAlphabet == {0, 97, 128, 255}

RECURSIVE SeqsUpTo(_, _)
SeqsUpTo(S, n) ==
    IF n = 0
    THEN {<<>>}
    ELSE LET shorter == SeqsUpTo(S, n - 1)
         IN  shorter \cup {Append(s, x) : s \in shorter, x \in S}

NameInputs ==
    SeqsUpTo(NameAlphabet, MaxNameLen) \cup {AbolitionStr, ParamRootStr}

\* hash_name entered: `let mut crc = 0xFFFFFFFF; let mut i = 0;`
InitHash ==
    /\ name \in NameInputs
    /\ hash_i = 0
    /\ hash_crc = CRC_INIT
    /\ hashed = None
    /\ key = None
    /\ params = <<>>
    /\ types = <<>>
    /\ byml = None
    /\ text = None
    /\ src = None
    /\ last = "none"
    /\ error = None

\* one turn of `while i < name.len()`
HashByte ==
    /\ hashed = None
    /\ hash_i < Len(name)
    /\ hash_crc' = hash_step(hash_crc, name[hash_i + 1])
    /\ hash_i' = hash_i + 1
    /\ UNCHANGED <<name, hashed, key, paramVars, textVars>>

\* the loop is left and hash_name returns
HashReturn ==
    /\ hashed = None
    /\ ~(hash_i < Len(name))
    /\ hashed' = Some(hash_finish(hash_crc))
    /\ UNCHANGED <<name, hash_i, hash_crc, key, paramVars, textVars>>

\* Name::from_str wraps the hash returned for its string
NameFromStr ==
    /\ hashed # None
    /\ key = None
    /\ key' = Some(Name(hashed[1]))
    /\ UNCHANGED <<name, hash_i, hash_crc, hashed, paramVars, textVars>>

NextHash == HashByte \/ HashReturn \/ NameFromStr

SpecHash == InitHash /\ [][NextHash]_vars

(***************************************************************************)
(* The parameter client: a ParameterObject is filled with parameters and   *)
(* the writer asks each one for its type byte and whether it is a buffer.  *)
(***************************************************************************)
InitParam ==
    /\ name = <<>>
    /\ hash_i = 0
    /\ hash_crc = CRC_INIT
    /\ hashed = None
    /\ key = None
    /\ params = <<>>
    /\ types = <<>>
    /\ byml = None
    /\ text = None
    /\ src = None
    /\ last = "none"
    /\ error = None

InsertParam ==
    /\ Len(params) < MaxParams
    /\ types = <<>>
    /\ \E v \in ParameterVariants : params' = Append(params, Parameter(v))
    /\ UNCHANGED <<hashVars, types, textVars>>

WriteTypes ==
    /\ params # <<>>
    /\ types = <<>>
    /\ types' = [i \in 1 .. Len(params) |->
                    [byte |-> TypeByte(get_type(params[i])),
                     buffer |-> is_buffer_type(params[i])]]
    /\ UNCHANGED <<hashVars, params, textVars>>

NextParam == InsertParam \/ WriteTypes

SpecParam == InitParam /\ [][NextParam]_vars

(***************************************************************************)
(* The text client: a caller holds a document or a YAML text and calls     *)
(* Byml::to_text and Byml::from_text on what it holds.                     *)
(***************************************************************************)
MaxItems == 2
MaxWide == 11

\* some values of each kind, with the extremes of each width
I32Values ==
    {<<0, 0>>, <<1, 0>>, <<65535, 65535>>, <<65535, 32767>>, <<0, 32768>>}

U32Values == {<<0, 0>>, <<16, 0>>, <<48879, 57005>>}

I64Values ==
    {<<5, 0, 0, 0>>, <<58367, 21515, 2, 0>>, <<65535, 65535, 65535, 65535>>,
     <<0, 0, 0, 32768>>}

U64Values ==
    {<<0, 0, 0, 0>>, <<48879, 57005, 0, 0>>, <<65535, 65535, 65535, 65535>>}

\* 0.0, 1.5, 3.0, -0.25 in units of 1 / 2^F32FracBits
FloatValues ==
    {<<0, 0>>, <<0, 6 * Pow2(F32FracBits - 2)>>,
     <<0, 12 * Pow2(F32FracBits - 2)>>, <<1, Pow2(F32FracBits - 2)>>}

\* 1.5, 2.0, 0.125, -0.375 in units of 1 / 2^F64FracBits
DoubleValues ==
    {<<0, 12 * Pow2(F64FracBits - 3)>>, <<0, 16 * Pow2(F64FracBits - 3)>>,
     <<0, Pow2(F64FracBits - 3)>>, <<1, 3 * Pow2(F64FracBits - 3)>>}

\* "a" "true" "null" "" "~" "12" "-1" "0x10" "1.5" "!u" "a b"
StringValues ==
    {<<97>>, <<116, 114, 117, 101>>, <<110, 117, 108, 108>>, <<>>, <<126>>,
     <<49, 50>>, <<45, 49>>, <<48, 120, 49, 48>>, <<49, 46, 53>>,
     <<33, 117>>, <<97, 32, 98>>}

BinaryValues == {<<>>, <<1>>, <<0, 255>>, <<1, 2, 3>>, <<77, 97, 110, 33>>}

AllScalars ==
    {Null, Bool(TRUE), Bool(FALSE)}
        \cup {I32(w) : w \in I32Values} \cup {U32(w) : w \in U32Values}
        \cup {I64(w) : w \in I64Values} \cup {U64(w) : w \in U64Values}
        \cup {Float(f) : f \in FloatValues}
        \cup {Double(f) : f \in DoubleValues}
        \cup {String(s) : s \in StringValues}
        \cup {BinaryData(d) : d \in BinaryValues}

CoreScalars ==
    {Null, Bool(TRUE), I32(<<1, 0>>), U32(<<48879, 57005>>),
     I64(<<5, 0, 0, 0>>), U64(<<65535, 65535, 65535, 65535>>),
     Float(<<0, 6 * Pow2(F32FracBits - 2)>>),
     Double(<<0, 12 * Pow2(F64FracBits - 3)>>), String(<<97>>),
     String(<<49, 50>>), BinaryData(<<1>>)}

\* "a" "b" "B" "ab" "true"
KeyValues == {<<97>>, <<98>>, <<66>>, <<97, 98>>, <<116, 114, 117, 101>>}

HashScalars ==
    {I32(<<1, 0>>), U64(<<65535, 65535, 65535, 65535>>), String(<<98>>)}

IsInjective(s) == \A i, j \in 1 .. Len(s) : s[i] = s[j] => i = j

FlatArrays ==
    {Array(s) : s \in SeqsUpTo(CoreScalars, MaxItems)}
        \cup {Array(<<x>>) : x \in AllScalars}

HashesOver(values) ==
    UNION {{Hash(ks, vs) : vs \in [1 .. Len(ks) -> values]} :
              ks \in {s \in SeqsUpTo(KeyValues, MaxItems) : IsInjective(s)}}

FlatHashes ==
    HashesOver(HashScalars)
        \cup {Hash(<<<<97>>>>, <<x>>) : x \in AllScalars}

InnerNodes ==
    {Array(<<>>), Hash(<<>>, <<>>), Array(<<U32(<<16, 0>>)>>),
     Hash(<<<<98>>, <<97>>>>, <<I64(<<5, 0, 0, 0>>), Float(<<0, 0>>)>>),
     Array(<<Array(<<Hash(<<<<97>>>>, <<Double(<<1, 3>>)>>)>>)>>),
     I32(<<1, 0>>)}

NestedTrees ==
    {Array(s) : s \in SeqsUpTo(InnerNodes, MaxItems)}
        \cup {Hash(<<<<98>>, <<97>>>>, <<x, y>>) : x, y \in InnerNodes}

\* containers of n children around the inline limit: an array of n I32, a
\* hash of n U32 inserted in descending key order, and an array whose last
\* child is an empty array
WideArray(n) == Array([i \in 1 .. n |-> I32(<<i, 0>>)])

WideHash(n) ==
    Hash([i \in 1 .. n |-> <<97 + n - i>>], [i \in 1 .. n |-> U32(<<i, 0>>)])

WideMixed(n) ==
    Array([i \in 1 .. n |-> IF i = n THEN Array(<<>>) ELSE I32(<<i, 0>>)])

WideTrees ==
    {WideArray(n) : n \in 0 .. MaxWide}
        \cup {WideHash(n) : n \in 0 .. MaxWide}
        \cup {WideMixed(n) : n \in 1 .. MaxWide}

BymlInputs ==
    AllScalars \cup FlatArrays \cup FlatHashes \cup NestedTrees
        \cup WideTrees

\* Scalars <<tag, text, quoted>> of hand-written documents.
\* untagged: 1 -1 2147483647 2147483648 -2147483649 4294967296 9999999999
\*           0x10 0xdeadbeef 1.5 0.1 abc true null (empty) ~
UntaggedTokens ==
    {<<49>>, <<45, 49>>, <<50, 49, 52, 55, 52, 56, 51, 54, 52, 55>>,
     <<50, 49, 52, 55, 52, 56, 51, 54, 52, 56>>,
     <<45, 50, 49, 52, 55, 52, 56, 51, 54, 52, 57>>,
     <<52, 50, 57, 52, 57, 54, 55, 50, 57, 54>>,
     <<57, 57, 57, 57, 57, 57, 57, 57, 57, 57>>, <<48, 120, 49, 48>>,
     <<48, 120, 100, 101, 97, 100, 98, 101, 101, 102>>, <<49, 46, 53>>,
     <<48, 46, 49>>, <<97, 98, 99>>, <<116, 114, 117, 101>>,
     <<110, 117, 108, 108>>, <<>>, <<126>>}

\* tagged integers: 1 -1 0x10 0xdeadbeef 4294967296 9999999999 -2147483649
\*                  0xffffffffffffffff abc 1.5
IntTokens ==
    {<<49>>, <<45, 49>>, <<48, 120, 49, 48>>,
     <<48, 120, 100, 101, 97, 100, 98, 101, 101, 102>>,
     <<52, 50, 57, 52, 57, 54, 55, 50, 57, 54>>,
     <<57, 57, 57, 57, 57, 57, 57, 57, 57, 57>>,
     <<45, 50, 49, 52, 55, 52, 56, 51, 54, 52, 57>>,
     <<48, 120, 102, 102, 102, 102, 102, 102, 102, 102, 102, 102, 102, 102,
       102, 102, 102, 102>>,
     <<97, 98, 99>>, <<49, 46, 53>>}

\* !f64: 1.5 0.1 1 -0.375 abc
FloatTokens ==
    {<<49, 46, 53>>, <<48, 46, 49>>, <<49>>, <<45, 48, 46, 51, 55, 53>>,
     <<97, 98, 99>>}

\* !!binary: AQ== TWFuIQ== abc (empty)
BinaryTokens ==
    {<<65, 81, 61, 61>>, <<84, 87, 70, 117, 73, 81, 61, 61>>, <<97, 98, 99>>,
     <<>>}

\* quoted: "1" "true" "1.5" "" "null"
QuotedTokens ==
    {<<49>>, <<116, 114, 117, 101>>, <<49, 46, 53>>, <<>>,
     <<110, 117, 108, 108>>}

DocScalars ==
    {<<"", t, FALSE>> : t \in UntaggedTokens}
        \cup {<<tag, t, FALSE>> : tag \in {"!u", "!ul", "!l"}, t \in IntTokens}
        \cup {<<"!f64", t, FALSE>> : t \in FloatTokens}
        \cup {<<tag, t, FALSE>> :
                 tag \in {"!!binary", "tag:yaml.org,2002:binary"},
                 t \in BinaryTokens}
        \cup {<<"", t, TRUE>> : t \in QuotedTokens}

ValEvent(d) == Event("Val", FALSE, d[2], d[1], d[3])

EndEvent == Event("End", FALSE, <<>>, "", FALSE)

\* `{a: !l 9999999999, b: [1, 2, 3]}`
ScenarioText ==
    <<Event("Map", TRUE, <<>>, "", FALSE),
      Event("Key", FALSE, <<97>>, "", FALSE),
      ValEvent(<<"!l", <<57, 57, 57, 57, 57, 57, 57, 57, 57, 57>>, FALSE>>),
      Event("Key", FALSE, <<98>>, "", FALSE),
      Event("Seq", TRUE, <<>>, "", FALSE),
      ValEvent(<<"", <<49>>, FALSE>>), ValEvent(<<"", <<50>>, FALSE>>),
      ValEvent(<<"", <<51>>, FALSE>>), EndEvent, EndEvent>>

\* `[x]`, `k: x` for the key "k", and the bare scalar `x`
TextInputs ==
    {<<Event("Seq", TRUE, <<>>, "", FALSE), ValEvent(d), EndEvent>> :
        d \in DocScalars}
        \cup {<<Event("Map", FALSE, <<>>, "", FALSE),
                Event("Key", FALSE, <<107>>, "", FALSE), ValEvent(d),
                EndEvent>> : d \in DocScalars}
        \cup {<<ValEvent(d)>> : d \in DocScalars}
        \cup {ScenarioText}

InitText ==
    /\ name = <<>>
    /\ hash_i = 0
    /\ hash_crc = CRC_INIT
    /\ hashed = None
    /\ key = None
    /\ params = <<>>
    /\ types = <<>>
    /\ \/ byml \in {Some(b) : b \in BymlInputs} /\ text = None
       \/ byml = None /\ text \in {Some(t) : t \in TextInputs}
    /\ src = None
    /\ last = "none"
    /\ error = None

\* let text = byml.to_text()
ToText ==
    /\ byml # None
    /\ LET r == to_text(byml[1])
       IN  /\ text' = IF r.ok THEN Some(r.text) ELSE None
           /\ src' = IF r.ok THEN byml ELSE None
           /\ error' = IF r.ok THEN None ELSE Some(r.err)
    /\ last' = "to_text"
    /\ UNCHANGED <<hashVars, paramVars, byml>>

\* let byml = Byml::from_text(text)
FromText ==
    /\ text # None
    /\ LET r == from_text(text[1])
       IN  /\ byml' = IF r.ok THEN Some(r.val) ELSE None
           /\ error' = IF r.ok THEN None ELSE Some(r.err)
    /\ last' = "from_text"
    /\ UNCHANGED <<hashVars, paramVars, text, src>>

NextText == ToText \/ FromText

SpecText == InitText /\ [][NextText]_vars

(***************************************************************************)
(* Properties of hash_name and Name (SpecHash).                            *)
(***************************************************************************)
\* CRC-32/ISO-HDLC as its parameters define it: the polynomial 0x04C11DB7
\* divides most-significant-bit first, every input byte is reflected, the
\* register starts at 0xFFFFFFFF, and the result is the reflected register
\* xored with 0xFFFFFFFF.
\* the n-bit natural a with its bits in the opposite order
RECURSIVE Reflect(_, _)
Reflect(a, n) ==
    IF n = 1
    THEN a
    ELSE LET h == n \div 2
             p == Pow2(h)
         IN  Reflect(a % p, h) * Pow2(n - h) + Reflect(a \div p, n - h)

Reflect32(w) == <<Reflect(w[2], 16), Reflect(w[1], 16)>>

PolyNormal == HexWord(<<0, 4, 12, 1, 1, 13, 11, 7>>)

AllOnes == HexWord(<<15, 15, 15, 15, 15, 15, 15, 15>>)

\* n steps of the division by PolyNormal, most significant bit first
RECURSIVE CrcDivide(_, _)
CrcDivide(reg, n) ==
    IF n = 0 THEN reg
    ELSE IF HighBit(reg) THEN CrcDivide(Xor(Shl1(reg), PolyNormal), n - 1)
    ELSE CrcDivide(Shl1(reg), n - 1)

\* the register of CRC-32/ISO-HDLC after one more input byte b
CrcFeed(reg, b) == CrcDivide(Xor(reg, <<Reflect(b, 8) * 256, 0>>), 8)

\* the CRC-32/ISO-HDLC whose register is reg after the last input byte
CrcResult(reg) == Xor(Reflect32(reg), AllOnes)

\* the register of CRC-32/ISO-HDLC that hash_name's crc stands for
CrcRegister == Reflect32(hash_crc)

\* C1: for every input string, hash_name returns the CRC-32/ISO-HDLC of its
\* bytes: before the first byte crc stands for the initial register
\* 0xFFFFFFFF, every byte consumed advances it as the reflected division by
\* 0x04C11DB7 does, and the value returned after the last byte is the
\* reflected register xored with 0xFFFFFFFF; the hash of the empty string is
\* 0 and the hash of "The Abolition of Man" is 0x41AFA934.
C1_HashIsCrc32 ==
    /\ [](hash_i = 0 => CrcRegister = AllOnes)
    /\ [][hash_i' # hash_i
            => /\ hash_i' = hash_i + 1
               /\ CrcRegister' = CrcFeed(CrcRegister, name[hash_i'])]_vars
    /\ [](hashed # None
            => /\ hash_i = Len(name)
               /\ hashed[1] = CrcResult(CrcRegister)
               /\ name = <<>> => hashed[1] = <<0, 0>>
               /\ name = AbolitionStr
                     => hashed[1] = HexWord(<<4, 1, 10, 15, 10, 9, 3, 4>>))

C1_Witness ==
    /\ name = AbolitionStr
    /\ hashed = Some(HexWord(<<4, 1, 10, 15, 10, 9, 3, 4>>))

\* C2 as stated: hash_name("param_root") is 0xE9A3C6E0 and ROOT_KEY, the
\* Name built by Name::from_str("param_root"), has that raw hash.
C2_Original ==
    /\ (name = ParamRootStr /\ hashed # None)
          => hashed[1] = HexWord(<<14, 9, 10, 3, 12, 6, 14, 0>>)
    /\ (name = ParamRootStr /\ key # None)
          => /\ key[1] = ROOT_KEY
             /\ Name_hash(key[1]) = HexWord(<<14, 9, 10, 3, 12, 6, 14, 0>>)

\* C2, amended: hash_name("param_root") is 0xA4F6CB6C, the CRC-32 of the
\* string, and ROOT_KEY, the Name built by Name::from_str("param_root"), has
\* exactly that raw hash.
C2_RootKeyHash ==
    /\ (name = ParamRootStr /\ hashed # None)
          => hashed[1] = HexWord(<<10, 4, 15, 6, 12, 11, 6, 12>>)
    /\ (name = ParamRootStr /\ key # None)
          => /\ key[1] = ROOT_KEY
             /\ Name_hash(key[1]) = HexWord(<<10, 4, 15, 6, 12, 11, 6, 12>>)

C2_Witness ==
    /\ name = ParamRootStr
    /\ hashed # None
    /\ key = Some(ROOT_KEY)

(***************************************************************************)
(* Properties of Parameter and Type (SpecParam).                           *)
(***************************************************************************)
ClaimedTypeByte ==
    [Bool |-> 0, F32 |-> 1, Int |-> 2, Vec2 |-> 3, Vec3 |-> 4, Vec4 |-> 5,
     Color |-> 6, String32 |-> 7, String64 |-> 8, Curve1 |-> 9,
     Curve2 |-> 10, Curve3 |-> 11, Curve4 |-> 12, BufferInt |-> 13,
     BufferF32 |-> 14, String256 |-> 15, Quat |-> 16, U32 |-> 17,
     BufferU32 |-> 18, BufferBinary |-> 19, StringRef |-> 20]

\* C9: the variant of a parameter determines its type byte: get_type gives
\* the Type of the same name, whose discriminant is its position 0..20 in the
\* declaration; parameters of different variants never share a type byte;
\* is_buffer_type holds exactly for the type bytes 13, 14, 18 and 19.
C9_VariantDeterminesTypeByte ==
    types # <<>> =>
        /\ \A i \in 1 .. Len(params) :
              /\ types[i].byte = ClaimedTypeByte[params[i].variant]
              /\ types[i].byte \in 0 .. 20
              /\ types[i].buffer <=> types[i].byte \in {13, 14, 18, 19}
        /\ \A i, j \in 1 .. Len(params) :
              params[i].variant # params[j].variant
                 => types[i].byte # types[j].byte

C9_Witness ==
    /\ Len(params) = 2
    /\ params[1].variant = "BufferU32"
    /\ params[2].variant = "U32"
    /\ Len(types) = 2
    /\ types[1].buffer
    /\ ~types[2].buffer

(***************************************************************************)
(* Properties of the text bridge (SpecText).                               *)
(***************************************************************************)
\* structural equality of documents; the entries of a Hash compare as a map
RECURSIVE BymlEq(_, _)
BymlEq(a, b) ==
    /\ a.kind = b.kind
    /\ CASE a.kind = "Array" ->
               /\ Len(a.items) = Len(b.items)
               /\ \A i \in 1 .. Len(a.items) : BymlEq(a.items[i], b.items[i])
         [] a.kind = "Hash" ->
               /\ Len(a.keys) = Len(b.keys)
               /\ \A i \in 1 .. Len(a.keys) :
                     \E j \in 1 .. Len(b.keys) :
                        /\ a.keys[i] = b.keys[j]
                        /\ BymlEq(a.items[i], b.items[j])
         [] OTHER -> a.val = b.val

\* the value a Hash holds for a key
HashGet(h, k) == h.items[CHOOSE j \in 1 .. Len(h.keys) : h.keys[j] = k]

\* a YAML node has the shape of a document node: sequences for arrays of
\* the same length, mappings for hashes with the same keys, scalars for the
\* rest
RECURSIVE SameShape(_, _)
SameShape(y, b) ==
    CASE b.kind = "Array" ->
            /\ y.type = "Seq"
            /\ Len(y.children) = Len(b.items)
            /\ \A i \in 1 .. Len(b.items) :
                  SameShape(y.children[i], b.items[i])
      [] b.kind = "Hash" ->
            /\ y.type = "Map"
            /\ Len(y.children) = Len(b.keys)
            /\ \A i \in 1 .. Len(y.children) :
                  /\ \E j \in 1 .. Len(b.keys) : b.keys[j] = y.children[i].key
                  /\ SameShape(y.children[i], HashGet(b, y.children[i].key))
      [] OTHER -> y.type = "Val"

\* the pairs <<YAML node, document node>> at the same place of two trees of
\* the same shape, at every depth
RECURSIVE NodePairs(_, _)
NodePairs(y, b) ==
    {<<y, b>>}
        \cup CASE b.kind = "Array" ->
                     UNION {NodePairs(y.children[i], b.items[i]) :
                               i \in 1 .. Len(b.items)}
               [] b.kind = "Hash" ->
                     UNION {NodePairs(y.children[i],
                                      HashGet(b, y.children[i].key)) :
                               i \in 1 .. Len(y.children)}
               [] OTHER -> {}

Emitted == last = "to_text" /\ error = None /\ text # None /\ byml # None

Parsed == last = "from_text" /\ error = None /\ text # None /\ byml # None

\* the node pairs of the text and the document the caller holds
HeldPairs == NodePairs(RymlParse(text[1]), byml[1])

ContainerKinds == {"Array", "Hash"}

\* C3 as stated: to_text on a root that is neither Hash, Array nor Null
\* fails with the InvalidData error variant and produces no text; for Hash,
\* Array and Null roots it does not fail.
C3_Original ==
    last = "to_text" =>
        IF byml[1].kind \in {"Hash", "Array", "Null"}
        THEN error = None /\ text # None
        ELSE error = Some("InvalidData") /\ text = None

\* C3, amended: to_text on a root that is neither Hash, Array nor Null fails
\* with the Any error variant and produces no text; for Hash, Array and Null
\* roots it does not fail.
C3_ScalarRootFails ==
    last = "to_text" =>
        IF byml[1].kind \in {"Hash", "Array", "Null"}
        THEN error = None /\ text # None
        ELSE error = Some("Any") /\ text = None

C3_Witness ==
    /\ last = "to_text"
    /\ byml = Some(U32(<<48879, 57005>>))
    /\ error = Some("Any")
    /\ text = None

IntKindOfTag(tag) ==
    CASE tag = "!u" -> "U32"
      [] tag = "!ul" -> "U64"
      [] tag = "!l" -> "I64"
      [] tag = "" -> "I32"
      [] OTHER -> "none"

FloatKindOfTag(tag) ==
    CASE tag = "!f64" -> "Double"
      [] tag = "" -> "Float"
      [] OTHER -> "none"

OverflowsI32(y) ==
    /\ y.type = "Val"
    /\ y.tag = ""
    /\ ~y.quoted
    /\ parse_int(y.val).ok
    /\ parse_int(y.val).val # SignExtend(Low32(parse_int(y.val).val))

\* C6: an untagged integer scalar whose value does not fit in an i32 is
\* parsed as the I64 holding the exact value, never truncated into an I32;
\* a scalar tagged !u, !ul or !l keeps the kind of its tag.
C6_UntaggedOverflowEscalates ==
    Parsed =>
        \A p \in HeldPairs :
            /\ OverflowsI32(p[1]) => p[2] = I64(parse_int(p[1].val).val)
            /\ (p[1].type = "Val" /\ p[1].tag \in {"!u", "!ul", "!l"})
                  => p[2].kind = IntKindOfTag(p[1].tag)

\* the keys of a mapping are in strictly ascending string order
KeysAscending(y) ==
    \A i \in 1 .. Len(y.children) - 1 :
        StrLess(y.children[i].key, y.children[i + 1].key)

\* the same document with every Hash filled in the opposite order
RECURSIVE ReverseHashes(_)
ReverseHashes(b) ==
    LET n == Len(b.items)
    IN  CASE b.kind = "Array" ->
                Array([i \in 1 .. n |-> ReverseHashes(b.items[i])])
          [] b.kind = "Hash" ->
                Hash([i \in 1 .. n |-> b.keys[n + 1 - i]],
                     [i \in 1 .. n |-> ReverseHashes(b.items[n + 1 - i])])
          [] OTHER -> b

\* C7: in the emitted text the entries of every Hash, at any depth, are in
\* ascending order of key string comparison whatever the order of insertion;
\* the same entries inserted in another order give the same text, and so does
\* a repeated call.
C7_HashKeysSorted ==
    Emitted =>
        /\ SameShape(RymlParse(text[1]), byml[1])
        /\ \A p \in HeldPairs : p[2].kind = "Hash" => KeysAscending(p[1])
        /\ to_text(ReverseHashes(byml[1])).text = text[1]
        /\ to_text(byml[1]).text = text[1]

C7_Witness ==
    /\ Emitted
    /\ byml = Some(Hash(<<<<98>>, <<97>>>>,
                        <<Hash(<<<<98>>, <<97>>>>,
                               <<I64(<<5, 0, 0, 0>>), Float(<<0, 0>>)>>),
                          I32(<<1, 0>>)>>))
    /\ RymlParse(text[1]).children[1].key = <<97>>
    /\ RymlParse(text[1]).children[2].children[1].key = <<97>>

TagOfKind(kind) ==
    CASE kind = "U32" -> "!u"
      [] kind = "U64" -> "!ul"
      [] kind = "I64" -> "!l"
      [] kind = "Double" -> "!f64"
      [] kind = "BinaryData" -> "!!binary"
      [] OTHER -> ""

\* C8: in the emitted text every U32 carries the tag !u, every U64 !ul,
\* every I64 !l, every Double !f64 and every BinaryData !!binary, and I32,
\* Float, Bool, String and Null nodes carry no tag, at any depth.
C8_TagsOfKinds ==
    Emitted =>
        /\ SameShape(RymlParse(text[1]), byml[1])
        /\ \A p \in HeldPairs :
              p[2].kind \notin ContainerKinds => p[1].tag = TagOfKind(p[2].kind)

C8_Witness ==
    /\ Emitted
    /\ byml = Some(Array(<<Array(<<Array(<<Hash(<<<<97>>>>,
                                              <<Double(<<1, 3>>)>>)>>)>>),
                           Array(<<U32(<<16, 0>>)>>)>>))
    /\ RymlParse(text[1]).children[2].children[1].tag = "!u"

\* C10: a container is emitted in flow style exactly when it has fewer than
\* 10 direct children and none of them is an Array or a Hash, whatever its
\* depth and the style of its parent.
C10_FlowStyle ==
    Emitted =>
        /\ SameShape(RymlParse(text[1]), byml[1])
        /\ \A p \in HeldPairs :
              p[2].kind \in ContainerKinds =>
                 (p[1].flow <=>
                     /\ Len(p[2].items) < 10
                     /\ \A i \in 1 .. Len(p[2].items) :
                           p[2].items[i].kind \notin ContainerKinds)

C10_Witness ==
    /\ Emitted
    /\ byml = Some(WideHash(10))
    /\ ~RymlParse(text[1]).flow
    /\ to_text(WideHash(9)).text[1].flow

====
